---------------------------- MODULE Spec2Model ----------------------------
(***************************************************************************)
(* Model of the four table generators of star-taker-tarot:                 *)
(*   compute-manzil.py, compute-rashi-nakshatra.py, compute-xiu.py,        *)
(*   precess-stars.py.                                                     *)
(*                                                                         *)
(* Angles are exact fixed-point numbers: an angle is an integer count of   *)
(* 1/Den degree.  Den is chosen so that every quantity the scripts compute *)
(* from their literals is an integer count: 360/28 = 90/7 degree,          *)
(* 360/27 = 40/3 degree, 50.29/3600 = 5029/360000 degree, and half an      *)
(* arc-minute = 1/120 degree.  The arithmetic is therefore that of the     *)
(* formulas over the rationals; the rounding of IEEE binary64, in which    *)
(* CPython evaluates them, is not part of the model.                       *)
(***************************************************************************)
EXTENDS Integers, Sequences, FiniteSets, TLC

(***************************************************************************)
(* Units.                                                                  *)
(***************************************************************************)
Den == 7 * 360000                \* units per degree
Deg(n) == n * Den                \* n whole degrees
Full == Deg(360)                 \* one turn

(***************************************************************************)
(* Bounds of the model.                                                    *)
(***************************************************************************)
GridPerDeg == 240     \* sampled longitudes per degree (240: every quarter arc-minute)
MaxTurns == 1         \* sampled longitudes reach down to -MaxTurns turns
YearsBack == 4        \* target years from 2019 - YearsBack ...
YearsAhead == 31      \* ... to 2019 + YearsAhead (the scripts use 2024, 2030, 2050)
EphSamples == 97      \* sampled ecliptic longitudes of a star, evenly round the circle
NumXiu == 3           \* determinative stars in the catalogue XIU (the script lists 28)
AtanSamples == 7      \* sampled values of math.atan2, evenly from -180 degrees up

(***************************************************************************)
(* Python arithmetic on the fixed-point numbers.                           *)
(***************************************************************************)
\* a // b and a % b for b > 0: floor division and its non-negative remainder
PyFloorDiv(a, b) == a \div b
PyMod(a, b) == a % b
\* int(x) of the angle x, in whole degrees: truncation toward zero
PyInt(x) == IF x >= 0 THEN x \div Den ELSE -((-x) \div Den)
\* int(f * 60 + 0.5) for the fraction f of a degree
PyRoundMinutes_truncating(f) == PyInt(60 * f)      \* the + 0.5 forgotten
PyRoundMinutes(f) == PyInt(60 * f + Den \div 2)

\* "{n:02d}" for an integer n
RECURSIVE DecimalDigits(_)
DecimalDigits(n) ==
    LET d == <<"0", "1", "2", "3", "4", "5", "6", "7", "8", "9">>[(n % 10) + 1]
    IN  IF n < 10 THEN d ELSE DecimalDigits(n \div 10) \o d
Format02d(n) ==
    IF n < 0 THEN "-" \o DecimalDigits(-n)
    ELSE IF n < 10 THEN "0" \o DecimalDigits(n)
    ELSE DecimalDigits(n)

(***************************************************************************)
(* SIGNS and Python list indexing.                                         *)
(***************************************************************************)
SIGNS == <<"Aries", "Taurus", "Gemini", "Cancer", "Leo", "Virgo",
           "Libra", "Scorpio", "Sagittarius", "Capricorn", "Aquarius", "Pisces">>

\* SIGNS[idx] raises IndexError unless -12 <= idx <= 11; a negative idx counts
\* from the end of the list.
InRangeSigns(idx) == idx >= -Len(SIGNS) /\ idx <= Len(SIGNS) - 1
SignsAt(idx) == IF idx >= 0 THEN SIGNS[idx + 1] ELSE SIGNS[idx + Len(SIGNS) + 1]

\* SIGNS.index(name)
SignIndex(name) == CHOOSE k \in 0..(Len(SIGNS) - 1) : SIGNS[k + 1] = name

Raised(what) ==
    [raised |-> what, sign_idx |-> 0, degrees |-> 0, minutes |-> 0,
     sign |-> "", text |-> ""]

(***************************************************************************)
(* lon_to_zodiac.  The scripts share no module: each holds its own copy,   *)
(* and each copy is modelled by its own definition.                        *)
(***************************************************************************)
\* The return statement: f"{degrees:02d}°{minutes:02d}' {SIGNS[sign_idx]}".
\* The locals are kept beside the text.
Label(sign_idx, degrees, minutes) ==
    IF ~InRangeSigns(sign_idx) THEN Raised("IndexError")
    ELSE [raised |-> "", sign_idx |-> sign_idx,
          degrees |-> degrees, minutes |-> minutes,
          sign |-> SignsAt(sign_idx),
          text |-> Format02d(degrees) \o "°" \o Format02d(minutes)
                     \o "' " \o SignsAt(sign_idx)]

\* compute-manzil.py
lon_to_zodiac_manzil(lon_deg) ==
    LET lon       == PyMod(lon_deg, Full)
        sign_idx  == PyInt(PyFloorDiv(lon, Deg(30)) * Den)
        remainder == lon - sign_idx * Deg(30)
        degrees0  == PyInt(remainder)
        minutes0  == PyRoundMinutes(remainder - Deg(degrees0))
        carry     == minutes0 = 60
        degrees   == IF carry THEN degrees0 + 1 ELSE degrees0
        minutes   == IF carry THEN 0 ELSE minutes0
    IN  Label(sign_idx, degrees, minutes)

\* compute-rashi-nakshatra.py
lon_to_zodiac_rashi(lon_deg) ==
    LET lon       == PyMod(lon_deg, Full)
        sign_idx  == PyInt(PyFloorDiv(lon, Deg(30)) * Den)
        remainder == lon - sign_idx * Deg(30)
        degrees0  == PyInt(remainder)
        minutes0  == PyRoundMinutes(remainder - Deg(degrees0))
        carry     == minutes0 = 60
        degrees   == IF carry THEN degrees0 + 1 ELSE degrees0
        minutes   == IF carry THEN 0 ELSE minutes0
    IN  Label(sign_idx, degrees, minutes)

\* compute-xiu.py
lon_to_zodiac_xiu(lon_deg) ==
    LET lon       == PyMod(lon_deg, Full)
        sign_idx  == PyInt(PyFloorDiv(lon, Deg(30)) * Den)
        remainder == lon - sign_idx * Deg(30)
        degrees0  == PyInt(remainder)
        minutes0  == PyRoundMinutes(remainder - Deg(degrees0))
        carry     == minutes0 = 60
        degrees   == IF carry THEN degrees0 + 1 ELSE degrees0
        minutes   == IF carry THEN 0 ELSE minutes0
    IN  Label(sign_idx, degrees, minutes)

\* precess-stars.py with the carry of 60 minutes left out
lon_to_zodiac_precess_no_carry(lon_deg) ==
    LET sign_idx  == PyInt(PyFloorDiv(lon_deg, Deg(30)) * Den)
        remainder == lon_deg - sign_idx * Deg(30)
        degrees   == PyInt(remainder)
        minutes   == PyRoundMinutes(remainder - Deg(degrees))
    IN  Label(sign_idx, degrees, minutes)

\* precess-stars.py: no reduction modulo 360
lon_to_zodiac_precess(lon_deg) ==
    LET lon       == lon_deg
        sign_idx  == PyInt(PyFloorDiv(lon, Deg(30)) * Den)
        remainder == lon - sign_idx * Deg(30)
        degrees0  == PyInt(remainder)
        minutes0  == PyRoundMinutes(remainder - Deg(degrees0))
        carry     == minutes0 = 60
        degrees   == IF carry THEN degrees0 + 1 ELSE degrees0
        minutes   == IF carry THEN 0 ELSE minutes0
    IN  Label(sign_idx, degrees, minutes)

(***************************************************************************)
(* compute-manzil.py: the constants and the ayanamsa of a target year.     *)
(***************************************************************************)
AYANAMSA_2019 == Deg(25)                         \* 25.0 degrees
PRECESSION_RATE == 5029 * (Den \div 360000)      \* 50.29 / 3600 degrees per year
MANSION_SIZE_nakshatra == Full \div 27           \* the size of a nakshatra instead
MANSION_SIZE == Full \div 28                     \* 360.0 / 28
MANZIL_LEN == 28                                 \* len(MANZIL)

\* the reference year taken one too late
ayanamsa_of_year_from_2020(year) == AYANAMSA_2019 + (year - 2020) * PRECESSION_RATE
\* years_from_2019 = year - 2019
\* ayanamsa = AYANAMSA_2019 + years_from_2019 * PRECESSION_RATE
ayanamsa_of_year(year) ==
    LET years_from_2019 == year - 2019
    IN  AYANAMSA_2019 + years_from_2019 * PRECESSION_RATE

\* lon_to_zodiac(ayanamsa).replace(SIGNS[0], '').strip()
ManzilHeader(l) ==
    IF l.sign = SIGNS[1]
    THEN Format02d(l.degrees) \o "°" \o Format02d(l.minutes) \o "'"
    ELSE l.text

(***************************************************************************)
(* compute-rashi-nakshatra.py: the constants and the ayanamsa from Spica.  *)
(***************************************************************************)
RASHI_SIZE == Deg(30)                 \* 30.0
NAKSHATRA_SIZE == Full \div 27        \* 360.0 / 27
RASHI_LEN == 12                       \* len(RASHI)
NAKSHATRA_LEN == 27                   \* len(NAKSHATRA)
TARGET_YEARS == {2024, 2030, 2050}

\* the subtraction the wrong way round
lahiri_ayanamsa_reversed(spica) == Deg(180) - spica
\* Lahiri: Spica = 180 degrees sidereal, so ayanamsa = tropical - 180
lahiri_ayanamsa(spica) == spica - Deg(180)

\* f"{lon_to_zodiac(ayanamsa).split()[0]} (Spica at {lon_to_zodiac(spica_tropical)})"
RashiHeader(a, spica) ==
    LET l == lon_to_zodiac_rashi(a)
    IN  Format02d(l.degrees) \o "°" \o Format02d(l.minutes) \o "'"
            \o " (Spica at " \o lon_to_zodiac_rashi(spica).text \o ")"

(***************************************************************************)
(* compute-xiu.py: the projection of an hour circle and the spans.         *)
(***************************************************************************)
\* hour_circle_ecliptic_longitude, from the value of math.atan2 on: lam_deg is
\* math.degrees(math.atan2(sin(ra) * cos(obliquity), cos(ra))).  The
\* trigonometry itself is the math library's and is not modelled.
hour_circle_ecliptic_longitude(lam_deg) ==
    IF lam_deg < 0 THEN lam_deg + Deg(360) ELSE lam_deg

\* the difference left as it is, negative where the circle wraps
xiu_span_unreduced(next_lam, this_lam) == next_lam - this_lam
\* span = (next_r[6] - r[6]) % 360
xiu_span(next_lam, this_lam) == PyMod(next_lam - this_lam, Full)

\* span_d = int(span); span_m = int((span - span_d) * 60 + 0.5)
\* f"{span_d:02d}°{span_m:02d}'"
xiu_span_text(span) ==
    LET span_d == PyInt(span)
        span_m == PyRoundMinutes(span - Deg(span_d))
    IN  [span_d |-> span_d, span_m |-> span_m,
         text |-> Format02d(span_d) \o "°" \o Format02d(span_m) \o "'"]

NoSpan == -1      \* a row of results that has no span yet
NoSpanText == [span_d |-> 0, span_m |-> 0, text |-> ""]

(***************************************************************************)
(* Inputs.                                                                 *)
(***************************************************************************)
\* longitudes in [0, 360)
Circle == {g * (Den \div GridPerDeg) : g \in 0..(360 * GridPerDeg - 1)}
\* whole turns added to them
Turns == (-MaxTurns)..1
Longitudes == {c + k * Full : c \in Circle, k \in Turns}

\* what astrometric.ecliptic_latlon(epoch='date') can deliver as lon.degrees
EclipticLongitudes == {k * (Full \div EphSamples) : k \in 0..(EphSamples - 1)}

\* the ayanamsas of the sky: every sampled angle, and whole turns below it
SkyAyanamsas == {a + k * Full : a \in EclipticLongitudes, k \in (-MaxTurns)..0}
\* Spica sits at 180 degrees sidereal: under the ayanamsa A the ephemeris
\* delivers it at (180 + A) mod 360
SpicaLongitudes == {(Deg(180) + A) % Full : A \in SkyAyanamsas}

\* what math.degrees(math.atan2(y, x)) can deliver: angles in [-180, 180],
\* sampled evenly, and one angle half an arc-minute below 0
AtanDegrees ==
    {k * (Full \div AtanSamples) - Deg(180) : k \in 0..AtanSamples}
        \cup {-(Den \div 120)}

\* the target years: the scripts list 2024, 2030 and 2050
Years == (2019 - YearsBack)..(2019 + YearsAhead)

NoLabel == Raised("")

VARIABLES
    pc,          \* what ran last: a copy of lon_to_zodiac, or a loop of a script
    lon_deg,     \* the longitude passed to lon_to_zodiac
    label,       \* what lon_to_zodiac returned, or the error it raised
    year,        \* the target year of the table being printed
    spica_tropical, \* the longitude of Spica observed for that year
    ayanamsa,    \* its ayanamsa
    header,      \* the ayanamsa as printed above the table
    i,           \* the index of the row printed last, -1 before the first
    trop_start,  \* that row's boundaries
    trop_end,
    start_label, \* and their labels
    end_label,
    results,     \* compute-xiu.py: per star the projected boundary and its span
    span_str     \* the span as printed in the row printed last

table == <<year, spica_tropical, ayanamsa, header, i, trop_start, trop_end, start_label, end_label>>
xiu == <<results, span_str>>
vars == <<pc, lon_deg, label, table, xiu>>

Init ==
    /\ pc = "start"
    /\ lon_deg = 0
    /\ label = NoLabel
    /\ year = 0
    /\ spica_tropical = 0
    /\ ayanamsa = 0
    /\ header = ""
    /\ i = -1
    /\ trop_start = 0
    /\ trop_end = 0
    /\ start_label = NoLabel
    /\ end_label = NoLabel
    /\ results = <<>>
    /\ span_str = NoSpanText

CallManzil ==
    /\ pc = "start"
    /\ \E lon \in Longitudes :
        /\ pc' = "lon_to_zodiac_manzil"
        /\ lon_deg' = lon
        /\ label' = lon_to_zodiac_manzil(lon)
        /\ UNCHANGED <<table, xiu>>

CallRashi ==
    /\ pc = "start"
    /\ \E lon \in Longitudes :
        /\ pc' = "lon_to_zodiac_rashi"
        /\ lon_deg' = lon
        /\ label' = lon_to_zodiac_rashi(lon)
        /\ UNCHANGED <<table, xiu>>

CallXiu ==
    /\ pc = "start"
    /\ \E lon \in Longitudes :
        /\ pc' = "lon_to_zodiac_xiu"
        /\ lon_deg' = lon
        /\ label' = lon_to_zodiac_xiu(lon)
        /\ UNCHANGED <<table, xiu>>

CallPrecess ==
    /\ pc = "start"
    /\ \E lon \in Longitudes :
        /\ pc' = "lon_to_zodiac_precess"
        /\ lon_deg' = lon
        /\ label' = lon_to_zodiac_precess(lon)
        /\ UNCHANGED <<table, xiu>>

(***************************************************************************)
(* compute-manzil.py: one table per target year, one row per mansion.      *)
(***************************************************************************)
ManzilYear ==
    /\ pc = "start" \/ (pc = "manzil" /\ i = MANZIL_LEN - 1)
    /\ \E y \in Years :
        /\ year' = y
        /\ ayanamsa' = ayanamsa_of_year(y)
        /\ header' = ManzilHeader(lon_to_zodiac_manzil(ayanamsa_of_year(y)))
    /\ pc' = "manzil"
    /\ i' = -1
    /\ trop_start' = 0
    /\ trop_end' = 0
    /\ start_label' = NoLabel
    /\ end_label' = NoLabel
    /\ UNCHANGED <<lon_deg, label, spica_tropical, xiu>>

ManzilRow ==
    /\ pc = "manzil"
    /\ i + 1 < MANZIL_LEN
    /\ LET sid_start == (i + 1) * MANSION_SIZE
           sid_end   == (i + 2) * MANSION_SIZE
       IN  /\ trop_start' = PyMod(sid_start + ayanamsa, Full)
           /\ trop_end' = PyMod(sid_end + ayanamsa, Full)
    /\ start_label' = lon_to_zodiac_manzil(trop_start')
    /\ end_label' = lon_to_zodiac_manzil(trop_end')
    /\ i' = i + 1
    /\ UNCHANGED <<pc, lon_deg, label, year, spica_tropical, ayanamsa, header, xiu>>

(***************************************************************************)
(* compute-rashi-nakshatra.py: per target year the ayanamsa from Spica,    *)
(* then the 12 rows of the rashi and the 27 rows of the nakshatra.         *)
(***************************************************************************)
RashiYear ==
    /\ pc = "start" \/ (pc = "nakshatra" /\ i = NAKSHATRA_LEN - 1)
    /\ year' \in TARGET_YEARS
    /\ spica_tropical' \in SpicaLongitudes
    /\ ayanamsa' = lahiri_ayanamsa(spica_tropical')
    /\ header' = RashiHeader(ayanamsa', spica_tropical')
    /\ pc' = "rashi"
    /\ i' = -1
    /\ trop_start' = 0
    /\ trop_end' = 0
    /\ start_label' = NoLabel
    /\ end_label' = NoLabel
    /\ UNCHANGED <<lon_deg, label, xiu>>

RashiRow ==
    /\ pc = "rashi"
    /\ i + 1 < RASHI_LEN
    /\ LET sid_start == (i + 1) * RASHI_SIZE
           sid_end   == (i + 2) * RASHI_SIZE
       IN  /\ trop_start' = PyMod(sid_start + ayanamsa, Full)
           /\ trop_end' = PyMod(sid_end + ayanamsa, Full)
    /\ start_label' = lon_to_zodiac_rashi(trop_start')
    /\ end_label' = lon_to_zodiac_rashi(trop_end')
    /\ i' = i + 1
    /\ UNCHANGED <<pc, lon_deg, label, year, spica_tropical, ayanamsa, header, xiu>>

NakshatraRow ==
    /\ \/ pc = "rashi" /\ i = RASHI_LEN - 1 /\ i' = 0
       \/ pc = "nakshatra" /\ i + 1 < NAKSHATRA_LEN /\ i' = i + 1
    /\ LET sid_start == i' * NAKSHATRA_SIZE
           sid_end   == (i' + 1) * NAKSHATRA_SIZE
       IN  /\ trop_start' = PyMod(sid_start + ayanamsa, Full)
           /\ trop_end' = PyMod(sid_end + ayanamsa, Full)
    /\ start_label' = lon_to_zodiac_rashi(trop_start')
    /\ end_label' = lon_to_zodiac_rashi(trop_end')
    /\ pc' = "nakshatra"
    /\ UNCHANGED <<lon_deg, label, year, spica_tropical, ayanamsa, header, xiu>>

(***************************************************************************)
(* compute-xiu.py, for the year 2030: every determinative star is observed *)
(* and its hour circle projected; then the spans; then the table.  The     *)
(* direct ecliptic longitude, which only the comparison table prints, is   *)
(* left out.                                                               *)
(***************************************************************************)
XiuObserve ==
    /\ pc \in {"start", "xiu_observe"}
    /\ Len(results) < NumXiu
    /\ \E lam_deg \in AtanDegrees :
          LET lam_proj == hour_circle_ecliptic_longitude(lam_deg)
          IN  results' = Append(results, [lam_proj |-> lam_proj, span |-> NoSpan])
    /\ pc' = "xiu_observe"
    /\ year' = 2030
    /\ UNCHANGED <<lon_deg, label, spica_tropical, ayanamsa, header, i,
                   trop_start, trop_end, start_label, end_label, span_str>>

XiuSpan ==
    /\ \/ pc = "xiu_observe" /\ Len(results) = NumXiu /\ i' = 0
       \/ pc = "xiu_spans" /\ i + 1 < NumXiu /\ i' = i + 1
    /\ LET r      == results[i' + 1]
           next_r == results[((i' + 1) % NumXiu) + 1]
           span   == xiu_span(next_r.lam_proj, r.lam_proj)
       IN  results' = [results EXCEPT ![i' + 1].span = span]
    /\ pc' = "xiu_spans"
    /\ UNCHANGED <<lon_deg, label, year, spica_tropical, ayanamsa, header,
                   trop_start, trop_end, start_label, end_label, span_str>>

XiuPrintRow ==
    /\ \/ pc = "xiu_spans" /\ i = NumXiu - 1 /\ i' = 0
       \/ pc = "xiu_print" /\ i + 1 < NumXiu /\ i' = i + 1
    /\ start_label' = lon_to_zodiac_xiu(results[i' + 1].lam_proj)
    /\ span_str' = xiu_span_text(results[i' + 1].span)
    /\ pc' = "xiu_print"
    /\ UNCHANGED <<lon_deg, label, year, spica_tropical, ayanamsa, header,
                   trop_start, trop_end, end_label, results>>

(***************************************************************************)
(* precess-stars.py: per target year and star, the label of the star's     *)
(* ecliptic longitude of date.                                             *)
(***************************************************************************)
PrecessStar ==
    /\ pc \in {"start", "precess_star"}
    /\ year' \in TARGET_YEARS
    /\ lon_deg' \in EclipticLongitudes
    /\ label' = lon_to_zodiac_precess(lon_deg')
    /\ pc' = "precess_star"
    /\ UNCHANGED <<spica_tropical, ayanamsa, header, i, trop_start, trop_end,
                   start_label, end_label, xiu>>

Next ==
    \/ CallManzil \/ CallRashi \/ CallXiu \/ CallPrecess
    \/ ManzilYear \/ ManzilRow
    \/ RashiYear \/ RashiRow \/ NakshatraRow
    \/ XiuObserve \/ XiuSpan \/ XiuPrintRow
    \/ PrecessStar

Spec == Init /\ [][Next]_vars

(***************************************************************************)
(* Properties of lon_to_zodiac.                                            *)
(***************************************************************************)
Reducing == {"lon_to_zodiac_manzil", "lon_to_zodiac_rashi", "lon_to_zodiac_xiu"}
Copies == Reducing \cup {"lon_to_zodiac_precess"}
Called == pc \in Copies
InCircle(lon) == 0 <= lon /\ lon < Full

\* the copy named by pc, applied to lon
Apply(copy, lon) ==
    CASE copy = "lon_to_zodiac_manzil"  -> lon_to_zodiac_manzil(lon)
      [] copy = "lon_to_zodiac_rashi"   -> lon_to_zodiac_rashi(lon)
      [] copy = "lon_to_zodiac_xiu"     -> lon_to_zodiac_xiu(lon)
      [] copy = "lon_to_zodiac_precess" -> lon_to_zodiac_precess(lon)

\* sign_index * 30 + degrees + minutes / 60, the sign index read off the
\* printed sign name
Reconstructed(l) == Deg(SignIndex(l.sign) * 30 + l.degrees) + l.minutes * (Den \div 60)
Distance(a, b) == IF a >= b THEN a - b ELSE b - a

\* what the caller gets: the text, or the error raised
Returned(l) == <<l.raised, l.text>>

\* lon + 360 * k is still one of the sampled longitudes
Shiftable(lon, k) ==
    IF k > 0 THEN lon < (2 - k) * Full ELSE lon >= (-MaxTurns - k) * Full

\* C1: for every longitude in [0,360) the label of lon_to_zodiac has degrees
\* in 0..29 and minutes in 0..59, also when 60 minutes are carried into the
\* degrees.
C1_DegreesAndMinutesInRange ==
    (Called /\ InCircle(lon_deg) /\ label.raised = "")
        => (label.degrees \in 0..29 /\ label.minutes \in 0..59)

\* C2: for every longitude in [0,360) the value rebuilt from the label,
\* sign_index * 30 + degrees + minutes / 60, is within 1/120 degree of the
\* longitude.
C2_ReconstructionWithinHalfMinute ==
    (Called /\ InCircle(lon_deg))
        => (label.raised = "" /\ 120 * Distance(Reconstructed(label), lon_deg) <= Den)

\* a call whose minutes were rounded up by exactly half an arc-minute and
\* carried into the degrees
C2_Witness ==
    /\ Called /\ InCircle(lon_deg) /\ label.raised = ""
    /\ label.minutes = 0
    /\ 120 * (Reconstructed(label) - lon_deg) = Den

\* C3: lon_to_zodiac has period 360: the label of lon + 360 * k is the label
\* of lon, for every whole k.
C3_Periodic ==
    Called => \A k \in Turns :
                 Shiftable(lon_deg, k)
                     => Returned(Apply(pc, lon_deg + k * Full)) = Returned(label)

\* C4: every copy of lon_to_zodiac is total: whatever the longitude, it
\* computes a sign index in 0..11 and returns a label; the lookup in SIGNS
\* raises nothing.
C4_Total ==
    Called => (label.raised = "" /\ label.sign_idx \in 0..11)

\* C10: on [0,360) the copy of precess-stars.py, which does not reduce its
\* argument modulo 360, returns the label the three other copies return.
C10_PrecessCopyAgrees ==
    (pc \in {"lon_to_zodiac_precess", "precess_star"} /\ InCircle(lon_deg))
        => /\ label.raised = ""
           /\ label = lon_to_zodiac_manzil(lon_deg)
           /\ label = lon_to_zodiac_rashi(lon_deg)
           /\ label = lon_to_zodiac_xiu(lon_deg)

\* the precess-stars.py copy called in the last half arc-minute of Pisces,
\* where the carry of 60 minutes happens
C10_Witness ==
    /\ pc = "lon_to_zodiac_precess" /\ InCircle(lon_deg)
    /\ label.sign = "Pisces" /\ label.degrees = 30 /\ label.minutes = 0

(***************************************************************************)
(* Properties of the manazil table.                                        *)
(***************************************************************************)
\* C5: segment i of the 28 equal mansions starts at (i * 360/28 + a) mod 360
\* and ends at ((i + 1) * 360/28 + a) mod 360, a the ayanamsa; with a = 25.0
\* segment 0 is printed from "25°00' Aries" to "07°51' Taurus".
C5_MansionBoundaries ==
    (pc = "manzil" /\ i >= 0)
        => /\ trop_start = (i * (Deg(90) \div 7) + ayanamsa) % Full
           /\ trop_end = ((i + 1) * (Deg(90) \div 7) + ayanamsa) % Full
           /\ (ayanamsa = Deg(25) /\ i = 0)
                  => /\ start_label.text = "25°00' Aries"
                     /\ end_label.text = "07°51' Taurus"

\* the first row of the table whose ayanamsa is 25.0
C5_Witness ==
    /\ pc = "manzil" /\ i = 0 /\ ayanamsa = Deg(25)
    /\ trop_start = Deg(25)
    /\ 7 * trop_end = Deg(7 * 25 + 90)

Width == IF pc = "rashi" THEN Deg(30) ELSE Deg(40) \div 3

\* C6: the ayanamsa from Spica round-trips: if the ayanamsa of the sky is A
\* and the ephemeris delivers Spica at L = (180 + A) mod 360, then L - 180 is
\* A modulo 360, and the boundaries of every rashi and nakshatra are
\* (i * width + A) mod 360.
C6_SpicaRoundTrip ==
    pc \in {"rashi", "nakshatra"}
        => \A A \in SkyAyanamsas :
              (Deg(180) + A) % Full = spica_tropical
                  => /\ (ayanamsa - A) % Full = 0
                     /\ i >= 0 => /\ trop_start = (i * Width + A) % Full
                                  /\ trop_end = ((i + 1) * Width + A) % Full

\* a nakshatra row under a negative estimate (Spica below 180 degrees) whose
\* end has wrapped past 360
C6_Witness ==
    /\ pc = "nakshatra" /\ i > 0
    /\ spica_tropical < Deg(180) /\ ayanamsa < 0
    /\ trop_end < trop_start
    /\ \E A \in SkyAyanamsas : A >= 0 /\ (Deg(180) + A) % Full = spica_tropical

(***************************************************************************)
(* Properties of the xiu table.                                            *)
(***************************************************************************)
\* the boundary of mansion j (from 0) and its span
Boundary(j) == results[j + 1].lam_proj
SpanOf(j) == results[j + 1].span
\* the spans are computed up to mansion SpansDone - 1
SpansDone ==
    IF pc = "xiu_spans" THEN i + 1 ELSE IF pc = "xiu_print" THEN NumXiu ELSE 0

\* the boundaries go once round the ecliptic in increasing order: seen from
\* the first one, each lies further on than the one before it
CyclicIncreasing ==
    \A j \in 1..(NumXiu - 1) :
        (Boundary(j) - Boundary(0)) % Full > (Boundary(j - 1) - Boundary(0)) % Full

RECURSIVE SumOfSpans(_)
SumOfSpans(n) == IF n = 0 THEN 0 ELSE SumOfSpans(n - 1) + SpanOf(n - 1)

\* C9: the span of mansion i runs from its boundary to the boundary of
\* mansion (i + 1) mod N, the last one to the boundary of the first, and lies
\* in [0,360), whatever the spacing of the stars; when the boundaries go once
\* round the ecliptic in increasing order the spans add up to exactly 360.
C9_Spans ==
    /\ \A j \in 0..(SpansDone - 1) :
          /\ 0 <= SpanOf(j) /\ SpanOf(j) < Full
          /\ (Boundary(j) + SpanOf(j)) % Full = Boundary((j + 1) % NumXiu)
    /\ (SpansDone = NumXiu /\ CyclicIncreasing) => SumOfSpans(NumXiu) = Full

\* every span computed, the stars unevenly spaced once round the ecliptic,
\* the last mansion running through 0 degrees to the first
C9_Witness ==
    /\ SpansDone = NumXiu /\ CyclicIncreasing
    /\ Boundary(NumXiu - 1) > Boundary(0)
    /\ SpanOf(NumXiu - 1) = Boundary(0) + Full - Boundary(NumXiu - 1)
    /\ SpanOf(0) # SpanOf(1)

\* C11: the span of a mansion is printed as DD°MM' with the minutes in 0..59,
\* whatever the span in [0,360): 60 rounded minutes are carried into the
\* degrees, as lon_to_zodiac does.
C11_SpanMinutesInRange ==
    pc = "xiu_print" => span_str.span_m \in 0..59

=============================================================================
